---- MODULE Spec2Model ----
(***************************************************************************)
(* Model of webscrapercode.py: the funding-round pipeline                  *)
(* (fetch -> dedupe -> lookup -> classify -> select -> rank), main() with  *)
(* its CSV and Slack sinks, and the pure helpers norm_list_to_strings and  *)
(* safe_amount.                                                            *)
(*                                                                         *)
(* Python values are embedded as tagged records [t, v]; a Python str is a  *)
(* sequence of one-character strings, so that substring containment,       *)
(* lower(), join, str() and number formatting are computed, not assumed.   *)
(* A float is a fixed-point number of tenths.                              *)
(***************************************************************************)
EXTENDS Integers, Sequences, FiniteSets, TLC

\* ---------------------------------------------------------------- bounds
MaxRounds == 3
MaxCap == 3
MaxItems == 2

\* ------------------------------------------------------ Python values
PyNone == [t |-> "none", v |-> 0]
PyStr(s) == [t |-> "str", v |-> s]
PyInt(n) == [t |-> "int", v |-> n]
PyFloat(tenths) == [t |-> "float", v |-> tenths]
PyNaN == [t |-> "nan", v |-> 0]
PyInf == [t |-> "inf", v |-> 0]
PyBool(b) == [t |-> "bool", v |-> b]
PyList(xs) == [t |-> "list", v |-> xs]
PyDict(f) == [t |-> "dict", v |-> f]

\* Python truthiness: `if not val`, `a or b`
Truthy(x) ==
  CASE x.t = "none" -> FALSE
    [] x.t = "str" -> Len(x.v) > 0
    [] x.t = "int" -> x.v # 0
    [] x.t = "float" -> x.v # 0
    [] x.t = "bool" -> x.v
    [] x.t = "list" -> Len(x.v) > 0
    [] x.t = "dict" -> DOMAIN x.v # {}
    [] OTHER -> TRUE

\* `a or b`
Or(a, b) == IF Truthy(a) THEN a ELSE b

\* dict.get(k): the value, or None when the key is absent
Get(d, k) == IF k \in DOMAIN d.v THEN d.v[k] ELSE PyNone

\* ------------------------------------------------------------ strings
\* the characters used, in code-point order
ASCII ==
  <<" ","$","'",",","-",".","/","0","1","2","3","4","5","6","7","8","9",":",
    "A","B","C","D","E","F","G","H","I","J","K","L","M","N","O","P","Q","R",
    "S","T","U","V","W","X","Y","Z","[","]","_",
    "a","b","c","d","e","f","g","h","i","j","k","l","m","n","o","p","q","r",
    "s","t","u","v","w","x","y","z","{","|","}">>

Ord(c) == CHOOSE i \in 1..Len(ASCII) : ASCII[i] = c

\* str.lower() on one character
LowerChar(c) == IF Ord(c) >= Ord("A") /\ Ord(c) <= Ord("Z") THEN ASCII[Ord(c) + (Ord("a") - Ord("A"))] ELSE c

\* str.lower()
Lower(s) == [i \in 1..Len(s) |-> LowerChar(s[i])]

\* Python's < on str: lexicographic by code point
RECURSIVE StrLess(_, _)
StrLess(a, b) ==
  IF Len(b) = 0 THEN FALSE
  ELSE IF Len(a) = 0 THEN TRUE
  ELSE IF a[1] # b[1] THEN Ord(a[1]) < Ord(b[1])
  ELSE StrLess(Tail(a), Tail(b))

\* `term in blob`
Contains(blob, term) == \E i \in 1..(Len(blob) - Len(term) + 1) : SubSeq(blob, i, i + Len(term) - 1) = term

\* sep.join(parts)
RECURSIVE Join(_, _)
Join(sep, parts) ==
  IF Len(parts) = 0 THEN <<>>
  ELSE IF Len(parts) = 1 THEN parts[1]
  ELSE parts[1] \o sep \o Join(sep, Tail(parts))

\* decimal digits of a natural number
RECURSIVE Digits(_)
Digits(n) == IF n < 10 THEN <<ASCII[Ord("0") + n]>> ELSE Digits(n \div 10) \o <<ASCII[Ord("0") + (n % 10)]>>

\* str(int)
IntStr(n) == IF n < 0 THEN <<"-">> \o Digits(-n) ELSE Digits(n)

\* str(float) for a fixed-point value of tenths
FloatStr(x) == (IF x < 0 THEN <<"-">> ELSE <<>>) \o Digits((IF x < 0 THEN -x ELSE x) \div 10) \o <<".">> \o Digits((IF x < 0 THEN -x ELSE x) % 10)

\* the keys of the modelled dicts, as text, in the order repr() lists them
KeyOrder == <<"name", "value", "uuid", "id", "data">>

KeyChars(k) ==
  CASE k = "name" -> <<"n","a","m","e">>
    [] k = "value" -> <<"v","a","l","u","e">>
    [] k = "uuid" -> <<"u","u","i","d">>
    [] k = "id" -> <<"i","d">>
    [] k = "data" -> <<"d","a","t","a">>
    [] OTHER -> <<"k","e","y">>

\* repr(x) and str(x)
RECURSIVE Repr(_)
RECURSIVE ReprItems(_, _)
RECURSIVE ReprPairs(_, _)
ReprItems(xs, i) == IF i > Len(xs) THEN <<>> ELSE <<Repr(xs[i])>> \o ReprItems(xs, i + 1)

ReprPairs(d, i) ==
  IF i > Len(KeyOrder) THEN <<>>
  ELSE (IF KeyOrder[i] \in DOMAIN d THEN <<<<"'">> \o KeyChars(KeyOrder[i]) \o <<"'",":"," ">> \o Repr(d[KeyOrder[i]])>> ELSE <<>>) \o ReprPairs(d, i + 1)

Repr(x) ==
  CASE x.t = "none" -> <<"N","o","n","e">>
    [] x.t = "str" -> <<"'">> \o x.v \o <<"'">>
    [] x.t = "int" -> IntStr(x.v)
    [] x.t = "float" -> FloatStr(x.v)
    [] x.t = "nan" -> <<"n","a","n">>
    [] x.t = "inf" -> <<"i","n","f">>
    [] x.t = "bool" -> IF x.v THEN <<"T","r","u","e">> ELSE <<"F","a","l","s","e">>
    [] x.t = "list" -> <<"[">> \o Join(<<","," ">>, ReprItems(x.v, 1)) \o <<"]">>
    [] x.t = "dict" -> <<"{">> \o Join(<<","," ">>, ReprPairs(x.v, 1)) \o <<"}">>

Str(x) == IF x.t = "str" THEN x.v ELSE Repr(x)

\* ------------------------------------------------------------ helpers
\* one item of the list branch of norm_list_to_strings
NormItem(item) ==
  IF item.t = "str" THEN <<item.v>>
  ELSE IF item.t = "dict" THEN <<Str(Or(Or(Get(item, "name"), Get(item, "value")), item))>>
  ELSE <<Str(item)>>

RECURSIVE NormItems(_, _)
NormItems(xs, i) == IF i > Len(xs) THEN <<>> ELSE NormItem(xs[i]) \o NormItems(xs, i + 1)

\* a plausible slip: the falsy guard replaced by a None test
norm_list_to_strings_none_only(val) ==
  IF val.t = "none" THEN <<>>
  ELSE IF val.t = "str" THEN <<val.v>>
  ELSE IF val.t = "list" THEN NormItems(val.v, 1)
  ELSE <<Str(val)>>

\* returns a sequence of strings
norm_list_to_strings(val) ==
  IF ~Truthy(val) THEN <<>>
  ELSE IF val.t = "str" THEN <<val.v>>
  ELSE IF val.t = "list" THEN NormItems(val.v, 1)
  ELSE <<Str(val)>>

UuidKeys == <<"funded_organization_identifier", "funded_organization_uuid", "organization_uuid", "company_uuid">>

RECURSIVE ExtractFrom(_, _)
ExtractFrom(rd, i) ==
  IF i > Len(UuidKeys) THEN PyStr(<<>>)
  ELSE LET v == Get(rd, UuidKeys[i])
       IN  IF v.t = "str" /\ Truthy(v) THEN v
           ELSE IF v.t = "dict" /\ Truthy(Get(v, "uuid")) THEN v.v["uuid"]
           ELSE ExtractFrom(rd, i + 1)

extract_company_uuid(rd) == ExtractFrom(rd, 1)

\* the response body `data` of /crunchbase/company/info -> the profile
ProfileOf(data) ==
  IF data.t = "dict" /\ Truthy(Get(data, "name")) THEN data
  ELSE IF data.t = "dict" /\ Get(data, "data").t = "list" /\ Truthy(Get(data, "data")) THEN Get(data, "data").v[1]
  ELSE PyDict(<<>>)

CRUNCHBASE_TRAVEL_LABEL == <<"h","o","s","p","i","t","a","l","i","t","y",","," ","t","r","a","v","e","l"," ","a","n","d"," ","t","o","u","r","i","s","m">>

TRAVEL_KEYWORDS ==
  { <<"h","o","s","p","i","t","a","l","i","t","y">>, <<"t","r","a","v","e","l">>, <<"t","o","u","r","i","s","m">>, <<"h","o","t","e","l">>, <<"l","o","d","g","i","n","g">>, <<"r","e","s","o","r","t">>,
    <<"v","a","c","a","t","i","o","n"," ","r","e","n","t","a","l">>, <<"s","h","o","r","t"," ","t","e","r","m"," ","r","e","n","t","a","l">>, <<"h","o","s","t","e","l">>, <<"b","n","b">>,
    <<"b","e","d"," ","a","n","d"," ","b","r","e","a","k","f","a","s","t">>, <<"o","t","a">>, <<"b","o","o","k","i","n","g">>, <<"e","x","p","e","d","i","a">>, <<"t","r","i","p","a","d","v","i","s","o","r">>,
    <<"a","i","r","l","i","n","e">>, <<"a","i","r","p","o","r","t">>, <<"c","r","u","i","s","e">>, <<"f","e","r","r","y">>, <<"r","i","d","e","s","h","a","r","e">>,
    <<"t","o","u","r"," ","o","p","e","r","a","t","o","r">>, <<"t","o","u","r","i","s","m"," ","b","o","a","r","d">>, <<"t","r","a","v","e","l"," ","a","g","e","n","c","y">> }

HayKeys == <<"categories", "industries", "tags", "short_description", "description">>

RECURSIVE Hay(_, _)
Hay(co, i) ==
  IF i > Len(HayKeys) THEN <<>>
  ELSE LET k == HayKeys[i]
           v == Get(co, k)
           here == IF ~Truthy(v) THEN <<>>
                   ELSE IF k \in {"categories", "industries", "tags"}
                        THEN [j \in 1..Len(norm_list_to_strings(v)) |-> Lower(norm_list_to_strings(v)[j])]
                        ELSE <<Lower(Str(v))>>
       IN  here \o Hay(co, i + 1)

is_travel_company(co) ==
  LET blob == Join(<<" ","|"," ">>, Hay(co, 1))
  IN  IF Contains(blob, CRUNCHBASE_TRAVEL_LABEL) THEN TRUE
      ELSE \E term \in TRAVEL_KEYWORDS : Contains(blob, term)

\* ------------------------------------------------------- safe_amount
IsDigit(c) == c \in {"0","1","2","3","4","5","6","7","8","9"}

DigitVal(c) == Ord(c) - Ord("0")

RECURSIVE NatOf(_)
NatOf(ds) == IF Len(ds) = 0 THEN 0 ELSE NatOf(SubSeq(ds, 1, Len(ds) - 1)) * 10 + DigitVal(ds[Len(ds)])

RECURSIVE Strip(_)
Strip(s) ==
  IF Len(s) > 0 /\ s[1] = " " THEN Strip(Tail(s))
  ELSE IF Len(s) > 0 /\ s[Len(s)] = " " THEN Strip(SubSeq(s, 1, Len(s) - 1))
  ELSE s

\* float(str): [ok, v] with v in tenths; decimal notation only
\* (optional sign, digits, optional point and digits)
FloatOfStr(s) ==
  LET t == Strip(s)
      signed == Len(t) > 0 /\ t[1] \in {"-", "+"}
      body == IF signed THEN Tail(t) ELSE t
      dots == {i \in 1..Len(body) : body[i] = "."}
      dot == IF dots = {} THEN Len(body) + 1 ELSE CHOOSE i \in dots : TRUE
      whole == SubSeq(body, 1, dot - 1)
      frac == SubSeq(body, dot + 1, Len(body))
      wellformed == /\ Cardinality(dots) <= 1
                    /\ \A i \in 1..Len(whole) : IsDigit(whole[i])
                    /\ \A i \in 1..Len(frac) : IsDigit(frac[i])
                    /\ Len(whole) + Len(frac) > 0
      mag == NatOf(whole) * 10 + (IF Len(frac) > 0 THEN DigitVal(frac[1]) ELSE 0)
  IN  IF ~wellformed THEN [ok |-> FALSE, v |-> 0]
      ELSE [ok |-> TRUE, v |-> IF signed /\ t[1] = "-" THEN -mag ELSE mag]

\* slip: floor instead of truncation toward zero
TruncTenths_floor(x) == x \div 10

\* int(x) of a float x given in tenths: truncation toward zero
TruncTenths(x) == IF x >= 0 THEN x \div 10 ELSE -((-x) \div 10)

\* int(float(val)): [ok, v]; ok = FALSE stands for the exception
\* (TypeError, ValueError, OverflowError) that safe_amount catches

IntOfFloat(val) ==
  CASE val.t = "int" -> [ok |-> TRUE, v |-> val.v]
    [] val.t = "bool" -> [ok |-> TRUE, v |-> IF val.v THEN 1 ELSE 0]
    [] val.t = "float" -> [ok |-> TRUE, v |-> TruncTenths(val.v)]
    [] val.t = "str" -> [ok |-> FloatOfStr(val.v).ok, v |-> TruncTenths(FloatOfStr(val.v).v)]
    [] OTHER -> [ok |-> FALSE, v |-> 0]

\* the format spec "," on an int
RECURSIVE Group(_)
Group(ds) == IF Len(ds) <= 3 THEN ds ELSE Group(SubSeq(ds, 1, Len(ds) - 3)) \o <<",">> \o SubSeq(ds, Len(ds) - 2, Len(ds))

FormatThousands(n) == IF n < 0 THEN <<"-">> \o Group(Digits(-n)) ELSE Group(Digits(n))

\* the value safe_amount formats
AmountValue(rd) ==
  LET money == Or(Get(rd, "money_raised_usd"), Get(rd, "money_raised"))
  IN  IF money.t = "dict" THEN Or(Get(money, "value_usd"), Get(money, "value")) ELSE money

safe_amount(rd) ==
  LET val == AmountValue(rd)
  IN  IF IntOfFloat(val).ok THEN <<"$">> \o FormatThousands(IntOfFloat(val).v) ELSE <<"U","n","d","i","s","c","l","o","s","e","d">>

\* ------------------------------------------------------------ sorting
\* list.sort(key=..., reverse=True) on the keys: the order of the indices;
\* stable, equal keys keep their order
RECURSIVE SortIdx(_, _)
SortIdx(keys, n) ==
  IF n = 0 THEN <<>>
  ELSE LET prev == SortIdx(keys, n - 1)
           c == Cardinality({i \in 1..Len(prev) : ~StrLess(keys[prev[i]], keys[n])})
       IN  SubSeq(prev, 1, c) \o <<n>> \o SubSeq(prev, c + 1, Len(prev))

SortDescBy(xs, keys) == [i \in 1..Len(xs) |-> xs[SortIdx(keys, Len(xs))[i]]]

\* key=lambda x: x.get("announced_on") or ""
RoundKey(rd) == Or(Get(rd, "announced_on"), PyStr(<<>>)).v

\* key=lambda r: r["announced_on"] or ""
RowKey(r) == Or(r.announced_on, PyStr(<<>>)).v

\* items.sort(...) in fetch_recent_rounds
SortRounds(items) == SortDescBy(items, [i \in 1..Len(items) |-> RoundKey(items[i])])

\* slip: reverse=True forgotten (ascending, stable)
RECURSIVE SortIdxAsc(_, _)
SortIdxAsc(keys, n) ==
  IF n = 0 THEN <<>>
  ELSE LET prev == SortIdxAsc(keys, n - 1)
           c == Cardinality({i \in 1..Len(prev) : ~StrLess(keys[n], keys[prev[i]])})
       IN  SubSeq(prev, 1, c) \o <<n>> \o SubSeq(prev, c + 1, Len(prev))

SortPicked_ascending(rows) == [i \in 1..Len(rows) |-> rows[SortIdxAsc([j \in 1..Len(rows) |-> RowKey(rows[j])], Len(rows))[i]]]

\* picked.sort(...) at the end of pick_two_latest_travel
SortPicked(rows) == SortDescBy(rows, [i \in 1..Len(rows) |-> RowKey(rows[i])])

\* items = data.get("results") or data.get("data") or data.get("items") or []
ListingItems(data) == Or(Or(Or(Get(data, "results"), Get(data, "data")), Get(data, "items")), PyList(<<>>)).v

\* the row built for an accepted round
MakeRow(rd, co) ==
  [ announced_on |-> Get(rd, "announced_on"),
    investment_type |-> Get(rd, "investment_type"),
    amount_usd |-> PyStr(safe_amount(rd)),
    company_name |-> Get(co, "name"),
    website |-> Or(Or(Get(co, "website"), Get(co, "homepage_url")), PyStr(<<>>)),
    location |-> Or(Or(Or(Get(co, "location"), Get(co, "country")), Get(co, "country_code")), PyStr(<<>>)),
    categories |-> PyStr(Join(<<","," ">>, IF Len(norm_list_to_strings(Get(co, "categories"))) > 0
                                     THEN norm_list_to_strings(Get(co, "categories"))
                                     ELSE norm_list_to_strings(Get(co, "industries")))),
    crunchbase_url |-> Or(Or(Get(co, "permalink"), Get(co, "cb_url")), PyStr(<<>>)),
    description |-> Or(Or(Get(co, "short_description"), Get(co, "description")), PyStr(<<>>)) ]

\* ------------------------------------------------------------- sinks
CsvFields == <<"announced_on", "investment_type", "amount_usd", "company_name", "website", "location", "categories", "crunchbase_url", "description">>

\* csv writes None as the empty cell
CsvCell(v) == IF v.t = "none" THEN <<>> ELSE Str(v)

\* the lines of the file save_csv writes: the header, then one line per row
save_csv(rows) == <<CsvFields>> \o [i \in 1..Len(rows) |-> [j \in 1..Len(CsvFields) |-> CsvCell(rows[i][CsvFields[j]])]]

NoFile == <<>>

\* `x or <em dash>`; the one character U+2014 is written "U+2014"
OrDash(v) == Or(v, PyStr(<<"U+2014">>))

SlackBlock(r) ==
  << r.company_name, OrDash(r.categories), Or(r.announced_on, PyStr(<<"N","o","n","e">>)), OrDash(r.investment_type),
     r.amount_usd, OrDash(r.website), OrDash(r.description), OrDash(r.crunchbase_url) >>

NoResultsText == ":no_entry: No travel/hospitality fundings found today."

\* the text post_to_slack sends: a heading and one block per row
SlackText(rows) ==
  IF Len(rows) = 0 THEN [head |-> NoResultsText, blocks |-> <<>>]
  ELSE [head |-> "*Latest Travel/Hospitality Investments:*", blocks |-> [i \in 1..Len(rows) |-> SlackBlock(rows[i])]]


\* ------------------------------------------------------------- inputs
\* company identifiers the upstream API knows
U1 == PyStr(<<"u","1">>)
U2 == PyStr(<<"u","2">>)
U3 == PyStr(<<"u","3">>)
UUIDS == {U1, U2, U3}

\* funding rounds as the listing endpoint returns them
RoundA == PyDict([funded_organization_identifier |-> PyDict([uuid |-> U1, value |-> PyStr(<<"I","n","n">>)]), announced_on |-> PyStr(<<"2","0","2","4","-","0","5","-","0","2">>), investment_type |-> PyStr(<<"s","e","e","d">>), money_raised_usd |-> PyStr(<<"1","5","0","0","0","0","0",".","0">>)])
RoundB == PyDict([funded_organization_identifier |-> PyStr(<<>>), funded_organization_uuid |-> U1, announced_on |-> PyStr(<<"2","0","2","4","-","0","5","-","0","1">>), money_raised |-> PyDict([value_usd |-> PyFloat(25007)])])
RoundC == PyDict([organization_uuid |-> U2, announced_on |-> PyNone, investment_type |-> PyStr(<<"s","e","r","i","e","s","_","a">>)])
RoundD == PyDict([company_uuid |-> PyDict([name |-> PyStr(<<"x">>)]), announced_on |-> PyStr(<<"2","0","2","4","-","0","5","-","0","2">>)])
RoundE == PyDict([company_uuid |-> U3, announced_on |-> PyStr(<<"2","0","2","4","-","0","5","-","0","3">>), money_raised_usd |-> PyInt(0)])
RoundPool == {RoundA, RoundB, RoundC, RoundD, RoundE}

\* response bodies of the company endpoint
CompanyFlatTravel == PyDict([name |-> PyStr(<<"I","n","n">>), categories |-> PyList(<<PyDict([name |-> PyStr(<<"H","o","t","e","l">>)]), PyStr(<<"S","a","a","S">>)>>), website |-> PyStr(<<"i","n","n",".","i","o">>), country |-> PyStr(<<"F","R">>)])
CompanyWrappedOther == PyDict([data |-> PyList(<<PyDict([name |-> PyStr(<<"A","c","m","e">>), industries |-> PyStr(<<"S","o","f","t","w","a","r","e">>), description |-> PyStr(<<"R","o","b","o","t","s">>)])>>)])
CompanyNone == PyDict([data |-> PyList(<<>>)])
CompanyResponses == {CompanyFlatTravel, CompanyWrappedOther, CompanyNone}

\* the helpers tabulated over the inputs above (evaluated once)
Profiles == {ProfileOf(r) : r \in CompanyResponses}
UuidOf == [rd \in RoundPool |-> extract_company_uuid(rd)]
IsTravel == [co \in Profiles |-> is_travel_company(co)]
RowOf == [rd \in RoundPool |-> [co \in Profiles |-> MakeRow(rd, co)]]

SeqsUpTo(S, n) == UNION {[1..k -> S] : k \in 0..n}

\* response bodies of the listing endpoint: every list of rounds under
\* "results", and one list under each other key ("rows" is not a known key)
ListingResponses ==
  {PyDict([results |-> PyList(items)]) : items \in SeqsUpTo(RoundPool, MaxRounds)}
    \cup {PyDict([results |-> PyNone, data |-> PyList(<<RoundC, RoundE>>)]),
          PyDict([data |-> PyList(<<>>), items |-> PyList(<<RoundB, RoundA>>)]),
          PyDict([rows |-> PyList(<<RoundA>>)])}

\* -------------------------------------------------------------- state
VARIABLES
  MAX_COMPANY_LOOKUPS,  \* the configured cap on lookups
  company_api,          \* the upstream company endpoint: query -> response body
  pc,                   \* position of the run
  rounds,               \* the list fetch_recent_rounds returned
  idx,                  \* 1-based position of the loop in rounds
  picked,               \* accumulator of accepted rows
  seen,                 \* run-scoped set of identifiers
  lookups,              \* number of get_company calls
  out,                  \* lines printed to stdout
  csv,                  \* lines of the CSV file, NoFile when not written
  slack,                \* texts handed to requests.post
  arg,                  \* argument of a helper call
  ret                   \* result of a helper call

vars == <<MAX_COMPANY_LOOKUPS, company_api, pc, rounds, idx, picked, seen, lookups, out, csv, slack, arg, ret>>

\* the number of rows after which the loop stops: the literal 2
Target == 2

Init ==
  /\ MAX_COMPANY_LOOKUPS \in 0..MaxCap  \* a count
  /\ company_api \in [UUIDS -> CompanyResponses]
  /\ pc = "FETCHING"
  /\ rounds = <<>>
  /\ idx = 0
  /\ picked = <<>>
  /\ seen = {}
  /\ lookups = 0
  /\ out = <<>>
  /\ csv = NoFile
  /\ slack = <<>>
  /\ arg = PyNone
  /\ ret = PyNone

get_company(query_value) == ProfileOf(company_api[query_value])

\* rounds = fetch_recent_rounds(DAYS_SINCE); picked = []; seen = set(); lookups = 0
fetch_recent_rounds ==
  /\ pc = "FETCHING"
  /\ \E data \in ListingResponses :
       /\ rounds' = SortRounds(ListingItems(data))
       /\ out' = Append(out, <<"retrieved", Len(ListingItems(data))>>)
  /\ pc' = "ITERATING"
  /\ idx' = 1
  /\ picked' = <<>>
  /\ seen' = {}
  /\ lookups' = 0
  /\ UNCHANGED <<MAX_COMPANY_LOOKUPS, company_api, csv, slack, arg, ret>>

\* slips of the stop condition: `>` for `>=`; the cap forgotten
StopCondition_off_by_one == Len(picked) > Target \/ lookups > MAX_COMPANY_LOOKUPS

StopCondition_target_only == Len(picked) >= Target

\* if len(picked) >= 2 or lookups >= MAX_COMPANY_LOOKUPS
StopCondition == Len(picked) >= Target \/ lookups >= MAX_COMPANY_LOOKUPS

Processing == pc = "ITERATING" /\ idx <= Len(rounds) /\ ~StopCondition

\* break, then picked.sort(...) and return
Break ==
  /\ pc = "ITERATING"
  /\ idx <= Len(rounds)
  /\ StopCondition
  /\ picked' = SortPicked(picked)
  /\ pc' = "DONE"
  /\ UNCHANGED <<MAX_COMPANY_LOOKUPS, company_api, rounds, idx, seen, lookups, out, csv, slack, arg, ret>>

\* the for loop runs out of rounds, then picked.sort(...) and return
Exhausted ==
  /\ pc = "ITERATING"
  /\ idx > Len(rounds)
  /\ picked' = SortPicked(picked)
  /\ pc' = "DONE"
  /\ UNCHANGED <<MAX_COMPANY_LOOKUPS, company_api, rounds, idx, seen, lookups, out, csv, slack, arg, ret>>

\* `if not uuid ...: continue`
SkipNoId ==
  /\ Processing
  /\ ~Truthy(UuidOf[rounds[idx]])
  /\ idx' = idx + 1
  /\ UNCHANGED <<MAX_COMPANY_LOOKUPS, company_api, pc, rounds, picked, seen, lookups, out, csv, slack, arg, ret>>

\* slip: the duplicate is counted as a lookup
SkipDup_counts_lookup ==
  /\ pc = "ITERATING" /\ idx <= Len(rounds) /\ ~(Len(picked) >= Target \/ lookups >= MAX_COMPANY_LOOKUPS)
  /\ Truthy(UuidOf[rounds[idx]])
  /\ UuidOf[rounds[idx]] \in seen
  /\ lookups' = lookups + 1
  /\ idx' = idx + 1
  /\ UNCHANGED <<MAX_COMPANY_LOOKUPS, company_api, pc, rounds, picked, seen, out, csv, slack, arg, ret>>

\* `if ... uuid in seen: continue`
SkipDup ==
  /\ Processing
  /\ Truthy(UuidOf[rounds[idx]])
  /\ UuidOf[rounds[idx]] \in seen
  /\ idx' = idx + 1
  /\ UNCHANGED <<MAX_COMPANY_LOOKUPS, company_api, pc, rounds, picked, seen, lookups, out, csv, slack, arg, ret>>

Fresh == Processing /\ Truthy(UuidOf[rounds[idx]]) /\ UuidOf[rounds[idx]] \notin seen

ProgressLine == <<"progress", idx, Len(rounds), UuidOf[rounds[idx]]>>

\* slip: `lookups += 1` placed after the empty-profile check
SkipEmpty_not_counted ==
  /\ pc = "ITERATING" /\ idx <= Len(rounds) /\ ~(Len(picked) >= Target \/ lookups >= MAX_COMPANY_LOOKUPS)
  /\ Truthy(UuidOf[rounds[idx]]) /\ UuidOf[rounds[idx]] \notin seen
  /\ ~Truthy(ProfileOf(company_api[UuidOf[rounds[idx]]]))
  /\ seen' = seen \cup {UuidOf[rounds[idx]]}
  /\ out' = out \o <<<<"progress", idx, Len(rounds), UuidOf[rounds[idx]]>>, <<"no_company_data">>>>
  /\ idx' = idx + 1
  /\ UNCHANGED <<MAX_COMPANY_LOOKUPS, company_api, pc, rounds, picked, lookups, csv, slack, arg, ret>>

\* lookup, `if not co: ... continue`
SkipEmpty ==
  /\ Fresh
  /\ ~Truthy(get_company(UuidOf[rounds[idx]]))
  /\ seen' = seen \cup {UuidOf[rounds[idx]]}
  /\ lookups' = lookups + 1
  /\ out' = out \o <<ProgressLine, <<"no_company_data">>>>
  /\ idx' = idx + 1
  /\ UNCHANGED <<MAX_COMPANY_LOOKUPS, company_api, pc, rounds, picked, csv, slack, arg, ret>>

\* slip: the `continue` after the rejection forgotten, the row is appended
SkipNotTravel_appends ==
  /\ pc = "ITERATING" /\ idx <= Len(rounds) /\ ~(Len(picked) >= Target \/ lookups >= MAX_COMPANY_LOOKUPS)
  /\ Truthy(UuidOf[rounds[idx]]) /\ UuidOf[rounds[idx]] \notin seen
  /\ Truthy(ProfileOf(company_api[UuidOf[rounds[idx]]]))
  /\ ~IsTravel[ProfileOf(company_api[UuidOf[rounds[idx]]])]
  /\ seen' = seen \cup {UuidOf[rounds[idx]]}
  /\ lookups' = lookups + 1
  /\ picked' = Append(picked, RowOf[rounds[idx]][ProfileOf(company_api[UuidOf[rounds[idx]]])])
  /\ out' = out \o <<<<"progress", idx, Len(rounds), UuidOf[rounds[idx]]>>, <<"not_travel">>>>
  /\ idx' = idx + 1
  /\ UNCHANGED <<MAX_COMPANY_LOOKUPS, company_api, pc, rounds, csv, slack, arg, ret>>

\* slip: `seen.add(uuid)` placed after the classification
SkipNotTravel_not_seen ==
  /\ pc = "ITERATING" /\ idx <= Len(rounds) /\ ~(Len(picked) >= Target \/ lookups >= MAX_COMPANY_LOOKUPS)
  /\ Truthy(UuidOf[rounds[idx]]) /\ UuidOf[rounds[idx]] \notin seen
  /\ Truthy(ProfileOf(company_api[UuidOf[rounds[idx]]]))
  /\ ~IsTravel[ProfileOf(company_api[UuidOf[rounds[idx]]])]
  /\ lookups' = lookups + 1
  /\ out' = out \o <<<<"progress", idx, Len(rounds), UuidOf[rounds[idx]]>>, <<"not_travel">>>>
  /\ idx' = idx + 1
  /\ UNCHANGED <<MAX_COMPANY_LOOKUPS, company_api, pc, rounds, picked, seen, csv, slack, arg, ret>>

\* lookup, `if not is_travel_company(co): ... continue`
SkipNotTravel ==
  /\ Fresh
  /\ Truthy(get_company(UuidOf[rounds[idx]]))
  /\ ~IsTravel[get_company(UuidOf[rounds[idx]])]
  /\ seen' = seen \cup {UuidOf[rounds[idx]]}
  /\ lookups' = lookups + 1
  /\ out' = out \o <<ProgressLine, <<"not_travel">>>>
  /\ idx' = idx + 1
  /\ UNCHANGED <<MAX_COMPANY_LOOKUPS, company_api, pc, rounds, picked, csv, slack, arg, ret>>

\* lookup, classification accepts: the row is appended
Accept ==
  /\ Fresh
  /\ Truthy(get_company(UuidOf[rounds[idx]]))
  /\ IsTravel[get_company(UuidOf[rounds[idx]])]
  /\ seen' = seen \cup {UuidOf[rounds[idx]]}
  /\ lookups' = lookups + 1
  /\ picked' = Append(picked, RowOf[rounds[idx]][get_company(UuidOf[rounds[idx]])])
  /\ out' = out \o <<ProgressLine, <<"travel_match", Get(get_company(UuidOf[rounds[idx]]), "name")>>>>
  /\ idx' = idx + 1
  /\ UNCHANGED <<MAX_COMPANY_LOOKUPS, company_api, pc, rounds, csv, slack, arg, ret>>

\* post_to_slack(rows) after the lines `o` were printed; SLACK_WEBHOOK_URL
\* is read from the environment here, and the post may fail
post_to_slack(rows, o) ==
  \E webhook \in BOOLEAN, delivered \in BOOLEAN :
    IF ~webhook THEN slack' = slack /\ out' = o
    ELSE /\ slack' = Append(slack, SlackText(rows))
         /\ out' = Append(o, IF delivered THEN <<"slack_posted">> ELSE <<"slack_failed">>)

\* the other behaviour: save_csv(rows) called before the empty check
MainNoRows_saves_csv ==
  /\ pc = "DONE"
  /\ Len(picked) = 0
  /\ csv' = save_csv(picked)
  /\ \E webhook \in BOOLEAN, delivered \in BOOLEAN :
       IF ~webhook THEN slack' = slack /\ out' = Append(out, <<"result_none">>)
       ELSE /\ slack' = Append(slack, SlackText(picked))
            /\ out' = out \o <<<<"result_none">>, IF delivered THEN <<"slack_posted">> ELSE <<"slack_failed">>>>
  /\ pc' = "EXIT"
  /\ UNCHANGED <<MAX_COMPANY_LOOKUPS, company_api, rounds, idx, picked, seen, lookups, arg, ret>>

\* main(): `if not rows:` branch
MainNoRows ==
  /\ pc = "DONE"
  /\ Len(picked) = 0
  /\ post_to_slack(picked, Append(out, <<"result_none">>))
  /\ pc' = "EXIT"
  /\ UNCHANGED <<MAX_COMPANY_LOOKUPS, company_api, rounds, idx, picked, seen, lookups, csv, arg, ret>>

\* main(): report, save_csv, post_to_slack
MainReport ==
  /\ pc = "DONE"
  /\ Len(picked) > 0
  /\ csv' = save_csv(picked)
  /\ post_to_slack(picked, out \o <<<<"result_top">>, <<"result_saved", Len(picked)>>>>)
  /\ pc' = "EXIT"
  /\ UNCHANGED <<MAX_COMPANY_LOOKUPS, company_api, rounds, idx, picked, seen, lookups, arg, ret>>

Next ==
  \/ fetch_recent_rounds
  \/ Break
  \/ Exhausted
  \/ SkipNoId
  \/ SkipDup
  \/ SkipEmpty
  \/ SkipNotTravel
  \/ Accept
  \/ MainNoRows
  \/ MainReport

Spec == Init /\ [][Next]_vars

TypeOK ==
  /\ pc \in {"FETCHING", "ITERATING", "DONE", "EXIT"}
  /\ lookups \in 0..MaxRounds
  /\ seen \subseteq UUIDS
  /\ Len(picked) <= MaxRounds

\* ------------------------------------------- the helpers on their own
\* the pipeline's variables while a helper is called on its own
Idle ==
  /\ MAX_COMPANY_LOOKUPS = 0
  /\ company_api = [u \in UUIDS |-> CompanyNone]
  /\ rounds = <<>>
  /\ idx = 0
  /\ picked = <<>>
  /\ seen = {}
  /\ lookups = 0
  /\ out = <<>>
  /\ csv = NoFile
  /\ slack = <<>>

\* arguments of norm_list_to_strings
NormScalars ==
  { PyNone, PyStr(<<>>), PyStr(<<"H","o","t","e","l">>), PyInt(0), PyInt(7), PyBool(FALSE), PyBool(TRUE),
    PyFloat(0), PyFloat(25), PyDict(<<>>), PyDict([id |-> PyInt(1)]), PyDict([name |-> PyStr(<<"S","p","a">>)]) }

NormItemPool ==
  { PyStr(<<"H","o","t","e","l">>), PyStr(<<>>), PyDict([name |-> PyStr(<<"S","p","a">>)]), PyDict([name |-> PyNone, value |-> PyStr(<<"I","n","n">>)]),
    PyDict([id |-> PyInt(1)]), PyInt(0), PyNone, PyList(<<>>) }

NormInputs == NormScalars \cup {PyList(xs) : xs \in SeqsUpTo(NormItemPool, MaxItems)}

InitNorm == pc = "CALL_NORM" /\ arg \in NormInputs /\ ret = PyNone /\ Idle

CallNorm ==
  /\ pc = "CALL_NORM"
  /\ ret' = PyList([i \in 1..Len(norm_list_to_strings(arg)) |-> PyStr(norm_list_to_strings(arg)[i])])
  /\ pc' = "RETURNED"
  /\ UNCHANGED <<MAX_COMPANY_LOOKUPS, company_api, rounds, idx, picked, seen, lookups, out, csv, slack, arg>>

NextNorm == CallNorm

SpecNorm == InitNorm /\ [][NextNorm]_vars

\* values of the amount fields of a round
AmountValues ==
  { PyNone, PyStr(<<"1","5","0","0","0","0","0",".","0">>), PyStr(<<"1","5","0","0","0","0","0",".","7">>), PyStr(<<"a","b","c">>), PyStr(<<>>), PyStr(<<" ","4","2"," ">>),
    PyInt(0), PyInt(999), PyInt(1234567), PyFloat(-15007), PyFloat(9996), PyNaN, PyInf,
    PyDict([value_usd |-> PyInt(0), value |-> PyStr(<<"2","5","0","0">>)]), PyDict([value |-> PyFloat(25007)]),
    PyDict([value_usd |-> PyStr(<<"n","/","a">>)]), PyList(<<PyInt(5)>>) }

AmountInputs ==
  {PyDict([money_raised_usd |-> a, money_raised |-> b]) : a \in AmountValues, b \in AmountValues}
    \cup {PyDict([money_raised |-> b]) : b \in AmountValues}
    \cup {PyDict(<<>>)}

InitAmount == pc = "CALL_AMOUNT" /\ arg \in AmountInputs /\ ret = PyNone /\ Idle

CallAmount ==
  /\ pc = "CALL_AMOUNT"
  /\ ret' = PyStr(safe_amount(arg))
  /\ pc' = "RETURNED"
  /\ UNCHANGED <<MAX_COMPANY_LOOKUPS, company_api, rounds, idx, picked, seen, lookups, out, csv, slack, arg>>

NextAmount == CallAmount

SpecAmount == InitAmount /\ [][NextAmount]_vars

\* ============================================================ claims
Returned == pc \in {"DONE", "EXIT"}

HasId(i) == UuidOf[rounds[i]] # PyStr(<<>>)

C2_AsStated ==
  (pc = "EXIT" /\ Len(rounds) = 0) =>
    /\ picked = <<>>
    /\ csv = <<CsvFields>>
    /\ \A i \in 1..Len(slack) : slack[i].head = NoResultsText

\* C2 amended: after a fetch of 0 rounds the selection is empty, no CSV
\* file is written, and the only text handed to Slack (at most one, none
\* without a webhook) is the no-results message.
C2_NoRounds ==
  (pc = "EXIT" /\ Len(rounds) = 0) =>
    /\ picked = <<>>
    /\ csv = NoFile
    /\ Len(slack) <= 1
    /\ \A i \in 1..Len(slack) : slack[i] = [head |-> NoResultsText, blocks |-> <<>>]
    /\ out[2] = <<"result_none">>

C2_Witness == pc = "EXIT" /\ Len(rounds) = 0 /\ Len(slack) = 1 /\ csv = NoFile

\* C3: a processed round whose identifier is missing or already in the seen
\* set causes no lookup: the lookup counter, the seen set, the accumulator
\* and the printed lines (no progress line) are unchanged and the loop moves
\* to the next round.
C3_SkipFrame ==
  [][ ( /\ pc = "ITERATING"
        /\ idx <= Len(rounds)
        /\ ~(Len(picked) >= Target \/ lookups >= MAX_COMPANY_LOOKUPS)
        /\ (~HasId(idx) \/ UuidOf[rounds[idx]] \in seen) )
      => ( /\ lookups' = lookups
           /\ seen' = seen
           /\ picked' = picked
           /\ out' = out
           /\ idx' = idx + 1
           /\ pc' = "ITERATING" ) ]_vars

\* three rounds were processed with one lookup: one round had no
\* identifier and one repeated the identifier of an earlier round
C3_Witness ==
  /\ pc = "ITERATING"
  /\ idx = 4
  /\ lookups = 1
  /\ Cardinality(seen) = 1
  /\ \E i \in 1..3 : ~HasId(i)
  /\ \E i, j \in 1..3 : i < j /\ HasId(i) /\ UuidOf[rounds[i]] = UuidOf[rounds[j]]

DateOf(r) == IF r.announced_on = PyNone THEN <<>> ELSE r.announced_on.v

\* C4: the returned list is sorted by announcement date descending, and
\* every record with a missing date comes after every record with a date.
C4_Sorted ==
  Returned =>
    \A i, j \in 1..Len(picked) :
      i < j => /\ ~StrLess(DateOf(picked[i]), DateOf(picked[j]))
               /\ (DateOf(picked[i]) = <<>> => DateOf(picked[j]) = <<>>)

\* two records returned, the second without a date
C4_Witness ==
  /\ Returned
  /\ Len(picked) = 2
  /\ picked[1].announced_on # PyNone
  /\ picked[2].announced_on = PyNone

\* C5: the rounds that qualify, from the input and the upstream answers
\* alone: an identifier that no earlier round has, a non-empty profile that
\* the classifier accepts, and fewer than `cap` distinct identifiers before it
Qualifies(i) ==
  /\ HasId(i)
  /\ \A j \in 1..(i - 1) : UuidOf[rounds[j]] # UuidOf[rounds[i]]
  /\ get_company(UuidOf[rounds[i]]) # PyDict(<<>>)
  /\ IsTravel[get_company(UuidOf[rounds[i]])]
  /\ Cardinality({UuidOf[rounds[j]] : j \in {k \in 1..(i - 1) : HasId(k)}}) < MAX_COMPANY_LOOKUPS

Qualifying == {i \in 1..Len(rounds) : Qualifies(i)}

FirstQualifying == {i \in Qualifying : Cardinality({j \in Qualifying : j < i}) < Target}

RECURSIVE RowsOf(_, _)
RowsOf(I, i) ==
  IF i > Len(rounds) THEN <<>>
  ELSE (IF i \in I THEN <<RowOf[rounds[i]][get_company(UuidOf[rounds[i]])]>> ELSE <<>>) \o RowsOf(I, i + 1)

\* C5: the records returned are exactly the rows of the first `target`
\* qualifying rounds, in iteration order.
C5_Selection == Returned => picked = RowsOf(FirstQualifying, 1)

\* rounds 1 and 3 resolve to travel companies, round 2 is looked up and
\* rejected, the cap does not bind
C5_Witness ==
  /\ pc = "DONE"
  /\ Len(rounds) = 3
  /\ MAX_COMPANY_LOOKUPS = 3
  /\ Qualifying = {1, 3}
  /\ lookups = 3
  /\ Len(picked) = 2

\* C6: once accepted >= target or lookups >= cap at the top of the loop, the
\* next step is DONE and no lookup, seen-set insertion or acceptance happens,
\* then or later; with cap = 1 a lookup is followed by DONE with fewer than
\* target records, and a run over rounds with an identifier ends with
\* exactly 1 lookup.
C6_StopFirst ==
  [][ /\ ( pc = "ITERATING" /\ (Len(picked) >= Target \/ lookups >= MAX_COMPANY_LOOKUPS) )
         => ( pc' = "DONE" /\ lookups' = lookups /\ seen' = seen /\ Len(picked') = Len(picked) /\ out' = out )
      /\ Returned => ( Returned' /\ lookups' = lookups /\ seen' = seen /\ picked' = picked )
      /\ ( MAX_COMPANY_LOOKUPS = 1 /\ pc = "ITERATING" /\ lookups = 1 )
         => ( pc' = "DONE" /\ Len(picked') < Target )
      /\ ( MAX_COMPANY_LOOKUPS = 1 /\ pc' = "DONE" /\ \E i \in 1..Len(rounds) : HasId(i) )
         => lookups' = 1 ]_vars

\* cap = 1: stopped after one lookup (a rejection), with an unseen round left
C6_Witness ==
  /\ pc = "DONE"
  /\ MAX_COMPANY_LOOKUPS = 1
  /\ lookups = 1
  /\ Len(picked) = 0
  /\ idx <= Len(rounds)
  /\ HasId(idx)
  /\ UuidOf[rounds[idx]] \notin seen


\* the falsy scalars, spelled out
EmptyScalar(x) ==
  \/ x.t = "none"
  \/ x.t = "str" /\ x.v = <<>>
  \/ x.t \in {"int", "float"} /\ x.v = 0
  \/ x.t = "bool" /\ x.v = FALSE
  \/ x.t = "dict" /\ DOMAIN x.v = {}

IsText(x) == x.t = "str"

\* C7 as stated: the result is a list of strings of length 0 for an absent
\* or empty input, 1 for a non-empty string, N for a list of N items, and
\* any other scalar, 0 and False included, is stringified into one element.
C7_AsStated ==
  (pc = "RETURNED") =>
    /\ ret.t = "list"
    /\ \A i \in 1..Len(ret.v) : IsText(ret.v[i])
    /\ (arg.t = "none" \/ arg = PyStr(<<>>) \/ arg = PyList(<<>>) \/ arg = PyDict(<<>>)) => Len(ret.v) = 0
    /\ (arg.t = "str" /\ arg.v # <<>>) => ret.v = <<arg>>
    /\ arg.t = "list" => Len(ret.v) = Len(arg.v)
    /\ (arg.t \in {"int", "float", "bool"} \/ (arg.t = "dict" /\ arg # PyDict(<<>>))) => ret.v = <<PyStr(Str(arg))>>

\* C7 amended: as stated, except that a falsy scalar (0, 0.0, False) gives
\* the empty list; only a truthy other scalar is stringified into one element.
C7_Cardinality ==
  (pc = "RETURNED") =>
    /\ ret.t = "list"
    /\ \A i \in 1..Len(ret.v) : IsText(ret.v[i])
    /\ (arg.t # "list" /\ EmptyScalar(arg)) => Len(ret.v) = 0
    /\ (arg.t = "str" /\ arg.v # <<>>) => ret.v = <<arg>>
    /\ arg.t = "list" => /\ Len(ret.v) = Len(arg.v)
                         /\ \A i \in 1..Len(arg.v) : arg.v[i].t = "str" => ret.v[i] = arg.v[i]
    /\ (arg.t \in {"int", "float", "bool", "dict"} /\ ~EmptyScalar(arg)) => ret.v = <<PyStr(Str(arg))>>

\* numeric 0 gave the empty list
C7_Witness == pc = "RETURNED" /\ arg = PyInt(0) /\ ret = PyList(<<>>)

\* reading an amount back: the text after "$", sign and separators removed
AmountBody(s) == IF Len(s) > 1 /\ s[2] = "-" THEN SubSeq(s, 3, Len(s)) ELSE Tail(s)

\* separators exactly at every fourth place from the right, digits elsewhere
WellGrouped(b) ==
  /\ Len(b) > 0
  /\ b[1] # ","
  /\ \A i \in 1..Len(b) : IF (Len(b) - i + 1) % 4 = 0 THEN b[i] = "," ELSE IsDigit(b[i])
  /\ (Len(b) > 1 => b[1] # "0")

AmountRead(s) ==
  LET b == AmountBody(s)
      n == NatOf(SelectSeq(b, LAMBDA c : c # ","))
  IN  IF Len(s) > 1 /\ s[2] = "-" THEN -n ELSE n

\* the value the fallback chain selects, and whether it is a finite number
Tenths(val) ==
  CASE val.t = "int" -> val.v * 10
    [] val.t = "bool" -> IF val.v THEN 10 ELSE 0
    [] val.t = "float" -> val.v
    [] val.t = "str" -> FloatOfStr(val.v).v

IsNumber(val) == val.t \in {"int", "bool", "float"} \/ (val.t = "str" /\ FloatOfStr(val.v).ok)

Undisclosed == PyStr(<<"U","n","d","i","s","c","l","o","s","e","d">>)

\* C8 as stated: a numeric amount is rendered rounded to the nearest whole
\* unit, with "$" and thousands separators; anything else as "Undisclosed".
C8_AsStated ==
  (pc = "RETURNED") =>
    IF IsNumber(AmountValue(arg))
    THEN /\ ret.v[1] = "$"
         /\ WellGrouped(AmountBody(ret.v))
         /\ 2 * (10 * AmountRead(ret.v) - Tenths(AmountValue(arg))) \in -10..10
    ELSE ret = Undisclosed

\* C8 amended: the value selected by the `or` chain, when it is a finite
\* number, is rendered truncated toward zero to a whole unit, with "$" and
\* thousands separators ("1500000.0" gives "$1,500,000"); anything else,
\* a missing amount included, is rendered "Undisclosed".
C8_Truncated ==
  (pc = "RETURNED") =>
    /\ IF IsNumber(AmountValue(arg))
       THEN /\ ret.v[1] = "$"
            /\ WellGrouped(AmountBody(ret.v))
            /\ LET n == AmountRead(ret.v)
                   x == Tenths(AmountValue(arg))
               IN  IF x >= 0 THEN 10 * n <= x /\ x < 10 * n + 10
                   ELSE 10 * n - 10 < x /\ x <= 10 * n
       ELSE ret = Undisclosed
    /\ (Get(arg, "money_raised_usd") = PyStr(<<"1","5","0","0","0","0","0",".","0">>) => ret = PyStr(<<"$","1",",","5","0","0",",","0","0","0">>))
    /\ (Get(arg, "money_raised_usd") = PyNone /\ Get(arg, "money_raised") = PyNone) => ret = Undisclosed
    /\ ret # Undisclosed => \E k \in {"money_raised_usd", "money_raised"} :
                              \/ IsNumber(Get(arg, k))
                              \/ Get(arg, k).t = "dict" /\ \E f \in {"value_usd", "value"} : IsNumber(Get(Get(arg, k), f))

\* a negative amount with a fraction was rendered toward zero
C8_Witness ==
  /\ pc = "RETURNED"
  /\ AmountValue(arg) = PyFloat(-15007)
  /\ ret = PyStr(<<"$","-","1",",","5","0","0">>)

\* C9: a lookup raises the counter by exactly one, whatever its outcome
\* (and the counter changes in no other way); after an empty profile or a
\* rejection no record is added and the loop goes on to the next round.
C9_LookupCounts ==
  [][ /\ ( /\ pc = "ITERATING"
           /\ idx <= Len(rounds)
           /\ ~(Len(picked) >= Target \/ lookups >= MAX_COMPANY_LOOKUPS)
           /\ HasId(idx)
           /\ UuidOf[rounds[idx]] \notin seen )
         => ( /\ lookups' = lookups + 1
              /\ Len(out') = Len(out) + 2
              /\ out'[Len(out) + 1] = <<"progress", idx, Len(rounds), UuidOf[rounds[idx]]>>
              /\ pc' = "ITERATING"
              /\ idx' = idx + 1
              /\ (~IsTravel[get_company(UuidOf[rounds[idx]])] => picked' = picked)
              /\ (get_company(UuidOf[rounds[idx]]) = PyDict(<<>>) => picked' = picked) )
      /\ (pc = "ITERATING" /\ lookups' # lookups)
         => (lookups' = lookups + 1 /\ out'[Len(out) + 1][1] = "progress") ]_vars

\* an empty profile, then a rejection, then an acceptance: three lookups
C9_Witness ==
  /\ pc = "ITERATING"
  /\ lookups = 3
  /\ Len(out) = 7
  /\ out[3] = <<"no_company_data">>
  /\ out[5] = <<"not_travel">>
  /\ out[7][1] = "travel_match"
  /\ Len(picked) = 1

ProgressLines == {k \in 1..Len(out) : out[k][1] = "progress"}

MatchLines == {k \in 1..Len(out) : out[k][1] = "travel_match"}

\* C10: the lookup counter equals the size of the seen set and the accepted
\* count is at most the counter; every identifier is looked up at most once
\* (the lookups are the progress lines), the identifiers looked up are the
\* seen set, and the accepted records come from distinct identifiers.
C10_OncePerId ==
  /\ lookups = Cardinality(seen)
  /\ Len(picked) <= lookups
  /\ Cardinality(ProgressLines) = lookups
  /\ {out[k][4] : k \in ProgressLines} = seen
  /\ \A k1, k2 \in ProgressLines : out[k1][4] = out[k2][4] => k1 = k2
  /\ Cardinality(MatchLines) = Len(picked)
  /\ \A k \in MatchLines : k - 1 \in ProgressLines
  /\ \A k1, k2 \in MatchLines : out[k1 - 1][4] = out[k2 - 1][4] => k1 = k2

\* a rejected identifier came back in a later round and was not looked up again
C10_Witness ==
  /\ pc = "ITERATING"
  /\ idx = 4
  /\ lookups = 2
  /\ Len(picked) = 1
  /\ UuidOf[rounds[1]] = UuidOf[rounds[2]]
  /\ out[3] = <<"not_travel">>

====
